---- MODULE Spec2Model ----
(***************************************************************************)
(* Order lifecycle and worker-scan tracking of the FabZClean backends.     *)
(*                                                                         *)
(* The persistence store (services, customers, orders, workers, tracks)    *)
(* is shared by request handlers that run concurrently.  A handler that    *)
(* reads, then commits, is two steps: the rows it loaded stay in its       *)
(* session (loc) while other requests may commit in between.  The module   *)
(* covers both backends: impl says which one serves the requests.          *)
(***************************************************************************)
EXTENDS Integers, Sequences, FiniteSets, TLC

VARIABLES
    impl,        \* "flask" (src/app) or "fastapi" (fabzclean-fastapi/app)
    services,    \* services table: id -> row or NoRow
    orders,      \* orders table: id -> row or NoRow
    tracks,      \* tracks table, in insertion order (row id = position)
    workers,     \* workers table: id -> row
    nextOrderId, \* autoincrement counter of orders.id
    clock,       \* time read by the created_at column defaults: every
                 \* insert happens later than the one before it
    pc,          \* per request slot: position of the handler it runs
    loc,         \* per request slot: what the handler's session holds
    last,        \* the response sent last; NoResp once a request has been
                 \* received whose handler has yet to answer
    nreq,        \* number of requests received so far
    history,     \* every order row ever inserted, with the price read for it
    statusFlushed, \* ids of the track rows whose scan also flushed its status
    customers,   \* customers table: id -> row or NoRow
    adminEnv,    \* ADMIN_EMAIL and ADMIN_PASSWORD of the process environment
    isAdmin      \* session["is_admin"] of the browser session

vars == <<impl, services, orders, tracks, workers, nextOrderId,
          clock, pc, loc, last, nreq, history, statusFlushed,
          customers, adminEnv, isAdmin>>

store == <<services, orders, tracks, workers, nextOrderId, customers>>

\* what the order, scan and service handlers never write: the backend, the
\* customers table, the environment and the admin session
config == <<impl, customers, adminEnv, isAdmin>>

----------------------------------------------------------------------------
(* Bounds of the model *)

MaxRequests == 3

Procs == {1, 2}

----------------------------------------------------------------------------
(* Values *)

NONE == "none"          \* Python None, SQL NULL, a JSON field left out
NoRow == [exists |-> FALSE]
NULL == "null"          \* a JSON null, where a field left out is told from it

Impls == {"flask", "fastapi"}

Statuses == {"created", "picked_up", "processing", "completed", "delivered", "cancelled"}

\* secrets.token_hex(6) draws one of 2^48 strings; two stand for them
OrderNumbers == {"0a1b2c3d4e5f", "6f7e8d9c0b1a"}

\* order_number values a scan request may carry
ScanNumbers == OrderNumbers \cup {""}

\* action values a scan request may carry
ScanActions == {"picked_up", "processing", "completed", "delivered", "inspected", ""}

CustomerIds == {1, 2}
\* ids of the customers table
CustomerRowIds == 1 .. (MaxRequests + 2)
\* email and password values of the request bodies
Emails == {"ann@fab.test", "bob@fab.test"}
Passwords == {"pw-one-88", "pw-two-88"}
\* identity of the JWT a request carries: 0 = no valid JWT, 3 = a valid JWT
\* whose customer row does not exist
JwtIds == {0, 1, 2, 3}

WorkerIds == {1, 2}
\* Authorization header: NONE = absent or not starting with "Bearer "
\* the values secrets.token_urlsafe(32) returns, in the order of the calls:
\* every call returns a value that no earlier call returned
IssuedTokens == <<"tok-n1", "tok-n2">>
Bearers == {NONE, "tok-w1", "tok-w2", "tok-unknown", "tok-n1", "tok-n2"}
\* worker_id of a login body: 0 = field left out, 3 = the id of no worker
RequestWorkerIds == {0, 1, 2, 3}

ServiceIds == 1 .. (MaxRequests + 1)
OrderIds == 1 .. MaxRequests
\* service_id of a create-order body: 0 = field left out
RequestServiceIds == {0, 1, 2}
\* price of a service body in thousandths of the currency unit: -1 = left out
RequestPrices == {-1, 2496}
\* name of a service body: "" = left out or empty
RequestNames == {"", "wash", "iron"}

\* status of an update-order body: NONE = field left out, NULL = null,
\* "bogus" = a value outside the six of the schema
RequestStatuses == Statuses \cup {NONE, NULL, "bogus"}

R(code, msg) == [code |-> code, msg |-> msg]
\* a response whose body carries an order's status
RStatus(code, msg, status) == [code |-> code, msg |-> msg, status |-> status]
\* a response whose body is the order with this id
ROrder(code, msg, id) == [code |-> code, msg |-> msg, id |-> id]
\* a response whose body is a list of orders, given by their ids
RList(code, msg, ids) == [code |-> code, msg |-> msg, ids |-> ids]
\* a response whose body carries the tokens and the id of a customer
RAuth(code, msg, customer) == [code |-> code, msg |-> msg, customer |-> customer]
\* a response whose body carries a worker token
RToken(code, msg, token) == [code |-> code, msg |-> msg, token |-> token]
NoResp == R(0, "")

NoLoc == [order_id |-> 0, status |-> NONE, worker_id |-> 0, action |-> NONE,
          customer_id |-> 0, service_id |-> 0, price |-> 0, order_number |-> NONE,
          price_read |-> 0, new_status |-> NONE, email |-> NONE,
          password |-> NONE]

----------------------------------------------------------------------------
(* Columns and conversions *)

\* Numeric(10, 2) column: a value in thousandths is stored in hundredths
Numeric2(milli) == (milli + 5) \div 10

\* float(row.price): the stored hundredths as a number in thousandths
ToFloat(cents) == cents * 10

\* `not x` of Python for the request fields
Falsy(x) == x = NONE \/ x = ""

\* hash_password: an argon2 hash of the password; verify_password holds for
\* the password the hash was made of and for no other
HashPassword(password) == [scheme |-> "argon2", of |-> password]
VerifyPassword(password_hash, password) ==
    password_hash.scheme = "argon2" /\ password_hash.of = password

\* the customers the orders of a provisioned database belong to
SeededCustomers ==
    [c \in CustomerRowIds |->
        IF c = 1 THEN [exists |-> TRUE, email |-> "ann@fab.test",
                       password_hash |-> HashPassword("pw-one-88")]
        ELSE IF c = 2 THEN [exists |-> TRUE, email |-> "bob@fab.test",
                            password_hash |-> HashPassword("pw-two-88")]
        ELSE NoRow]

\* an environment that sets both admin variables
AdminConfigured == [email |-> "admin@fab.test", password |-> "admin-pw-88"]

----------------------------------------------------------------------------
(* Initial state: a provisioned database with no orders and no tracks *)

Init ==
    /\ impl \in Impls
    /\ services = [s \in ServiceIds |->
                      IF s = 1 THEN [exists |-> TRUE, name |-> "wash", price |-> 100]
                      ELSE NoRow]
    /\ orders = [o \in OrderIds |-> NoRow]
    /\ tracks = <<>>
    /\ workers = [w \in WorkerIds |->
                     [exists |-> TRUE, token |-> IF w = 1 THEN "tok-w1" ELSE "tok-w2"]]
    /\ nextOrderId = 1
    /\ clock = 0
    /\ pc = [p \in Procs |-> "idle"]
    /\ loc = [p \in Procs |-> NoLoc]
    /\ last = NoResp
    /\ nreq = 0
    /\ history = <<>>
    /\ statusFlushed = {}
    /\ customers = SeededCustomers
    /\ adminEnv = AdminConfigured
    /\ isAdmin = FALSE

\* the handler of slot p answers r and its session ends
Finish(p, r) ==
    /\ last' = r
    /\ pc' = [pc EXCEPT ![p] = "idle"]
    /\ loc' = [loc EXCEPT ![p] = NoLoc]

\* slot p receives a request: the free slot of lowest number takes it
Receive(p) ==
    /\ pc[p] = "idle"
    /\ \A q \in Procs : pc[q] = "idle" => p <= q
    /\ nreq < MaxRequests
    /\ nreq' = nreq + 1

\* the handler of slot p goes on to its commit, holding l in its session
Hold(p, at, l) ==
    /\ last' = NoResp
    /\ pc' = [pc EXCEPT ![p] = at]
    /\ loc' = [loc EXCEPT ![p] = l]

----------------------------------------------------------------------------
(* Worker scan: POST /workers/scan *)

\* Worker.query.filter_by(token=token).first(): the id of the worker, or 0
WorkerByToken(token) ==
    LET found == {w \in WorkerIds : workers[w].exists /\ workers[w].token = token}
    IN  IF found = {} THEN 0 ELSE CHOOSE w \in found : \A v \in found : w <= v

\* require_worker_token that lets a token of no worker through
RequireWorkerTokenLax(bearer) ==
    IF bearer = NONE THEN R(401, "Missing worker token") ELSE NoResp

\* require_worker_token: the response that refuses the request, or NoResp
RequireWorkerToken(bearer) ==
    IF bearer = NONE THEN R(401, "Missing worker token")
    ELSE IF WorkerByToken(bearer) = 0 THEN R(401, "Invalid token")
    ELSE NoResp

\* the order lookup without its filter: the first order row there is
OrderByNumberAny(number) ==
    LET found == {o \in OrderIds : orders[o].exists}
    IN  IF found = {} THEN 0 ELSE CHOOSE o \in found : \A v \in found : o <= v

\* Order.query.filter_by(order_number=order_number).first(): the id, or 0
OrderByNumber(number) ==
    LET found == {o \in OrderIds : orders[o].exists /\ orders[o].order_number = number}
    IN  IF found = {} THEN 0 ELSE CHOOSE o \in found : \A v \in found : o <= v

\* the Flask chain ending in an else branch that assigns a status
FlaskScanStatusDefault(action) ==
    IF action = "picked_up" THEN "picked_up"
    ELSE IF action = "completed" THEN "completed"
    ELSE IF action = "delivered" THEN "delivered"
    ELSE "processing"

\* the status the Flask scan handler assigns for an action, NONE when it assigns none
FlaskScanStatus(action) ==
    IF action = "picked_up" THEN "picked_up"
    ELSE IF action = "processing" THEN "processing"
    ELSE IF action = "completed" THEN "completed"
    ELSE IF action = "delivered" THEN "delivered"
    ELSE NONE

\* the status the FastAPI scan handler assigns for an action, NONE when it assigns none
FastapiScanStatus(action) ==
    IF action = "picked_up" THEN "picked_up"
    ELSE IF action = "delivered" THEN "delivered"
    ELSE NONE

ScanStatus(action) ==
    IF impl = "flask" THEN FlaskScanStatus(action) ELSE FastapiScanStatus(action)

\* the Flask handler up to its commit: the decorator, the field check, the lookup
FlaskScan(p, bearer, number, action) ==
    /\ impl = "flask"
    /\ Receive(p)
    /\ IF RequireWorkerToken(bearer) # NoResp
          THEN Finish(p, RequireWorkerToken(bearer))
       ELSE IF Falsy(number) \/ Falsy(action)
          THEN Finish(p, R(400, "Missing fields"))
       ELSE IF OrderByNumber(number) = 0
          THEN Finish(p, R(404, "Order not found"))
       ELSE Hold(p, "scan_commit",
                 [NoLoc EXCEPT !.order_id = OrderByNumber(number),
                               !.status = orders[OrderByNumber(number)].status,
                               !.worker_id = WorkerByToken(bearer),
                               !.action = action])
    /\ UNCHANGED <<config, store, clock, history, statusFlushed>>

\* the FastAPI handler up to its commit; payload is a valid WorkerScanIn
FastapiScan(p, bearer, number, action) ==
    /\ impl = "fastapi"
    /\ Receive(p)
    /\ IF bearer = NONE
          THEN Finish(p, R(401, "Missing worker token"))
       ELSE IF WorkerByToken(bearer) = 0
          THEN Finish(p, R(401, "Invalid worker token"))
       ELSE IF OrderByNumber(number) = 0
          THEN Finish(p, R(404, "Order not found"))
       ELSE Hold(p, "scan_commit",
                 [NoLoc EXCEPT !.order_id = OrderByNumber(number),
                               !.status = orders[OrderByNumber(number)].status,
                               !.worker_id = WorkerByToken(bearer),
                               !.action = action])
    /\ UNCHANGED <<config, store, clock, history, statusFlushed>>

\* db.session.commit() raises and the transaction is rolled back
CommitFails(p) ==
    /\ Finish(p, R(500, "Internal Server Error"))
    /\ UNCHANGED <<config, store, clock, nreq, history, statusFlushed>>

\* the status the scan's session has pending against the row it loaded
PendingStatus(l) ==
    IF ScanStatus(l.action) # NONE /\ ScanStatus(l.action) # l.status
    THEN ScanStatus(l.action) ELSE NONE

\* the track committed on its own, the status assignment lost afterwards
ScanFlushTrackOnly(p) ==
    /\ tracks' = Append(tracks,
            [id |-> Len(tracks) + 1, order_id |-> loc[p].order_id,
             worker_id |-> loc[p].worker_id, action |-> loc[p].action,
             created_at |-> clock])
    /\ clock' = clock + 1
    /\ Finish(p, R(500, "Internal Server Error"))
    /\ UNCHANGED <<config, services, orders, workers, nextOrderId, nreq, history,
                   statusFlushed>>

\* a scan that is answered 200 without its track having been added
ScanFlushNoTrack(p) ==
    LET l == loc[p]
        gone == ~orders[l.order_id].exists
    IN  IF gone /\ PendingStatus(l) # NONE
        THEN CommitFails(p)
        ELSE /\ orders' = IF PendingStatus(l) # NONE
                             THEN [orders EXCEPT ![l.order_id].status = PendingStatus(l)]
                             ELSE orders
             /\ Finish(p, R(200, "Scan recorded"))
             /\ UNCHANGED <<config, services, tracks, workers, nextOrderId, clock,
                            nreq, history, statusFlushed>>

\* db.session.add(track); db.session.commit(): one transaction that inserts
\* the track row and updates the status column when the handler changed it
ScanFlush(p) ==
    LET l == loc[p]
        gone == ~orders[l.order_id].exists
    IN  IF gone /\ PendingStatus(l) # NONE
        THEN CommitFails(p)     \* the UPDATE matches no row
        ELSE /\ tracks' = Append(tracks,
                       [id |-> Len(tracks) + 1, order_id |-> l.order_id,
                        worker_id |-> l.worker_id, action |-> l.action,
                        created_at |-> clock])
             /\ orders' = IF PendingStatus(l) # NONE
                             THEN [orders EXCEPT ![l.order_id].status = PendingStatus(l)]
                             ELSE orders
             /\ statusFlushed' = IF ScanStatus(l.action) # NONE
                                    THEN statusFlushed \cup {Len(tracks) + 1}
                                    ELSE statusFlushed
             /\ clock' = clock + 1
             /\ Finish(p, R(200, "Scan recorded"))
             /\ UNCHANGED <<config, services, workers, nextOrderId, nreq, history>>

\* a database that enforces FOREIGN KEY constraints (MySQL, SQLite with the
\* pragma) refuses the track of a deleted order; one that does not (SQLite
\* as configured by default) takes it: CommitFails covers the first
ScanCommit(p) ==
    /\ pc[p] = "scan_commit"
    /\ \/ CommitFails(p)
       \/ ScanFlush(p)

----------------------------------------------------------------------------
(* Orders: POST /orders, DELETE /orders/<id> *)

\* generate_order_qr: the path of the label written for an order number
QrPath(number) == "/static/qr/" \o number \o ".png"

\* what create_order holds when it goes to commit: the Order it built
NewOrder(customer, sid, number) ==
    [NoLoc EXCEPT !.customer_id = customer,
                  !.service_id = sid,
                  !.price = ToFloat(services[sid].price),
                  !.order_number = number,
                  !.price_read = services[sid].price]

\* the Flask handler looking the service up with get_or_404
FlaskCreateOrderGetOr404(p, jwt, sid, number) ==
    /\ impl = "flask"
    /\ Receive(p)
    /\ IF jwt = 0
          THEN Finish(p, R(401, "Missing Authorization Header"))
       ELSE IF sid = 0
          THEN Finish(p, R(400, "Validation error"))
       ELSE IF jwt \notin CustomerIds
          THEN Finish(p, R(401, "Invalid user"))
       ELSE IF ~services[sid].exists
          THEN Finish(p, R(404, "Not Found"))
       ELSE Hold(p, "create_commit", NewOrder(jwt, sid, number))
    /\ UNCHANGED <<config, store, clock, history, statusFlushed>>

\* the Flask handler up to its first commit; number is what gen_order_number drew
FlaskCreateOrder(p, jwt, sid, number) ==
    /\ impl = "flask"
    /\ Receive(p)
    /\ IF jwt = 0
          THEN Finish(p, R(401, "Missing Authorization Header"))
       ELSE IF sid = 0
          THEN Finish(p, R(400, "Validation error"))
       ELSE IF jwt \notin CustomerIds
          THEN Finish(p, R(401, "Invalid user"))
       ELSE IF ~services[sid].exists
          THEN Finish(p, R(400, "Invalid service"))
       ELSE Hold(p, "create_commit", NewOrder(jwt, sid, number))
    /\ UNCHANGED <<config, store, clock, history, statusFlushed>>

\* the FastAPI handler up to its first commit; payload is a valid OrderCreate
FastapiCreateOrder(p, jwt, sid, number) ==
    /\ impl = "fastapi"
    /\ sid # 0
    /\ Receive(p)
    /\ IF jwt = 0
          THEN Finish(p, R(401, "Missing authorization"))
       ELSE IF jwt \notin CustomerIds
          THEN Finish(p, R(401, "Invalid user"))
       ELSE IF ~services[sid].exists
          THEN Finish(p, R(400, "Invalid service"))
       ELSE Hold(p, "create_commit", NewOrder(jwt, sid, number))
    /\ UNCHANGED <<config, store, clock, history, statusFlushed>>

\* the row inserted without the total_cost argument: the column default 0
OrderRowDefaultCost(id, l) ==
    [exists |-> TRUE, id |-> id, order_number |-> l.order_number,
     customer_id |-> l.customer_id, service_id |-> l.service_id,
     total_cost |-> 0, status |-> "created",
     qr_code_path |-> NONE, created_at |-> clock]

\* the row inserted into a status column that has no default
OrderRowNoStatusDefault(id, l) ==
    [exists |-> TRUE, id |-> id, order_number |-> l.order_number,
     customer_id |-> l.customer_id, service_id |-> l.service_id,
     total_cost |-> Numeric2(l.price), status |-> NONE,
     qr_code_path |-> NONE, created_at |-> clock]

\* the row db.session.add(order) inserts: status takes the column default
OrderRow(id, l) ==
    [exists |-> TRUE, id |-> id, order_number |-> l.order_number,
     customer_id |-> l.customer_id, service_id |-> l.service_id,
     total_cost |-> Numeric2(l.price), status |-> "created",
     qr_code_path |-> NONE, created_at |-> clock]

\* the first commit: the unique index on order_number refuses a second row
\* with the number of an existing one, and the IntegrityError is not caught
CreateOrderFlush(p) ==
    LET l == loc[p]
    IN  IF \E o \in OrderIds : orders[o].exists /\ orders[o].order_number = l.order_number
        THEN CommitFails(p)
        ELSE /\ orders' = [orders EXCEPT ![nextOrderId] = OrderRow(nextOrderId, l)]
             /\ nextOrderId' = nextOrderId + 1
             /\ history' = Append(history,
                     [id |-> nextOrderId, order_number |-> l.order_number,
                      price |-> l.price_read])
             /\ pc' = [pc EXCEPT ![p] = "create_label"]
             /\ loc' = [loc EXCEPT ![p].order_id = nextOrderId]
             /\ clock' = clock + 1
             /\ UNCHANGED <<config, services, tracks, workers, last, nreq, statusFlushed>>

CreateOrderCommit(p) ==
    /\ pc[p] = "create_commit"
    /\ \/ CommitFails(p)
       \/ CreateOrderFlush(p)

\* a label failure that takes the committed order row back out
LabelFailsRollsBack(p) ==
    /\ orders' = [orders EXCEPT ![loc[p].order_id] = NoRow]
    /\ Finish(p, R(500, "Internal Server Error"))
    /\ UNCHANGED <<config, services, tracks, workers, nextOrderId,
                   clock, nreq, history, statusFlushed>>

\* generate_order_qr raises (the image cannot be written): nothing catches
\* the exception, the request ends with a 500; the first commit stands
LabelFails(p) ==
    /\ Finish(p, R(500, "Internal Server Error"))
    /\ UNCHANGED <<config, store, clock, nreq, history, statusFlushed>>

\* after the first commit: reload the expired rows and write the label
CreateOrderLabel(p) ==
    /\ pc[p] = "create_label"
    /\ \/ LabelFails(p)
       \/ IF \/ ~orders[loc[p].order_id].exists
             \/ ~services[loc[p].service_id].exists
            THEN CommitFails(p) \* a row was deleted meanwhile: the reload raises
            ELSE /\ pc' = [pc EXCEPT ![p] = "label_commit"]
                 /\ UNCHANGED <<config, store, clock, loc, last, nreq,
                                history, statusFlushed>>

\* the second commit: store the path of the label in the row
CreateOrderLabelCommit(p) ==
    /\ pc[p] = "label_commit"
    /\ \/ CommitFails(p)      \* the second commit raises
       \/ IF ~orders[loc[p].order_id].exists
            THEN CommitFails(p) \* the row was deleted meanwhile
            ELSE /\ orders' = [orders EXCEPT ![loc[p].order_id].qr_code_path =
                                                QrPath(loc[p].order_number)]
                 /\ Finish(p, R(201, "Created"))
                 /\ UNCHANGED <<config, services, tracks, workers,
                                nextOrderId, clock, nreq, history, statusFlushed>>

\* the Flask handler without its owner check
FlaskDeleteOrderAnyone(p, jwt, oid) ==
    /\ impl = "flask"
    /\ Receive(p)
    /\ IF jwt = 0
          THEN Finish(p, R(401, "Missing Authorization Header"))
       ELSE IF ~orders[oid].exists
          THEN Finish(p, R(404, "Not Found"))
       ELSE Hold(p, "delete_commit", [NoLoc EXCEPT !.order_id = oid])
    /\ UNCHANGED <<config, store, clock, history, statusFlushed>>

\* the Flask handler up to its commit
FlaskDeleteOrder(p, jwt, oid) ==
    /\ impl = "flask"
    /\ Receive(p)
    /\ IF jwt = 0
          THEN Finish(p, R(401, "Missing Authorization Header"))
       ELSE IF ~orders[oid].exists
          THEN Finish(p, R(404, "Not Found"))
       ELSE IF orders[oid].customer_id # jwt
          THEN Finish(p, R(403, "Forbidden"))
       ELSE Hold(p, "delete_commit", [NoLoc EXCEPT !.order_id = oid])
    /\ UNCHANGED <<config, store, clock, history, statusFlushed>>

\* the FastAPI handler up to its commit
FastapiDeleteOrder(p, jwt, oid) ==
    /\ impl = "fastapi"
    /\ Receive(p)
    /\ IF jwt = 0
          THEN Finish(p, R(401, "Missing authorization"))
       ELSE IF jwt \notin CustomerIds
          THEN Finish(p, R(401, "Invalid user"))
       ELSE IF ~orders[oid].exists \/ orders[oid].customer_id # jwt
          THEN Finish(p, R(403, "Forbidden"))
       ELSE Hold(p, "delete_commit", [NoLoc EXCEPT !.order_id = oid])
    /\ UNCHANGED <<config, store, clock, history, statusFlushed>>

\* the delete with a delete cascade on the tracks relationship
DeleteOrderFlushCascade(p) ==
    /\ orders' = [orders EXCEPT ![loc[p].order_id] = NoRow]
    /\ tracks' = SelectSeq(tracks, LAMBDA t : t.order_id # loc[p].order_id)
    /\ Finish(p, R(200, "Deleted"))
    /\ UNCHANGED <<config, services, workers, nextOrderId,
                   clock, nreq, history, statusFlushed>>

\* db.session.delete(order); db.session.commit(): the tracks relationship has
\* no delete cascade, so the flush first sets order_id of the order's tracks
\* to NULL, which the NOT NULL column refuses
DeleteOrderFlush(p) ==
    IF \E i \in 1 .. Len(tracks) : tracks[i].order_id = loc[p].order_id
    THEN CommitFails(p)
    ELSE /\ orders' = [orders EXCEPT ![loc[p].order_id] = NoRow]
         /\ Finish(p, R(200, "Deleted"))
         /\ UNCHANGED <<config, services, tracks, workers, nextOrderId,
                        clock, nreq, history, statusFlushed>>

DeleteOrderCommit(p) ==
    /\ pc[p] = "delete_commit"
    /\ \/ CommitFails(p)
       \/ DeleteOrderFlush(p)

----------------------------------------------------------------------------
(* Orders: PUT /orders/<id>, GET /orders/<id>, GET /orders *)

\* the Flask handler loading a schema that has no status field
FlaskUpdateOrderNoStatus(p, jwt, oid, status) ==
    /\ impl = "flask"
    /\ Receive(p)
    /\ IF jwt = 0
          THEN Finish(p, R(401, "Missing Authorization Header"))
       ELSE IF ~orders[oid].exists
          THEN Finish(p, R(404, "Not Found"))
       ELSE IF orders[oid].customer_id # jwt
          THEN Finish(p, R(403, "Forbidden"))
       ELSE Hold(p, "update_commit",
                 [NoLoc EXCEPT !.order_id = oid,
                               !.status = orders[oid].status,
                               !.customer_id = jwt])
    /\ UNCHANGED <<config, store, clock, history, statusFlushed>>

\* the Flask handler up to its commit: owner check, then the schema
FlaskUpdateOrder(p, jwt, oid, status) ==
    /\ impl = "flask"
    /\ Receive(p)
    /\ IF jwt = 0
          THEN Finish(p, R(401, "Missing Authorization Header"))
       ELSE IF ~orders[oid].exists
          THEN Finish(p, R(404, "Not Found"))
       ELSE IF orders[oid].customer_id # jwt
          THEN Finish(p, R(403, "Forbidden"))
       ELSE IF status \notin Statuses \cup {NONE, NULL} \* allow_none=True
          THEN Finish(p, R(400, "Validation error"))
       ELSE Hold(p, "update_commit",
                 [NoLoc EXCEPT !.order_id = oid,
                               !.status = orders[oid].status,
                               !.customer_id = jwt,
                               !.new_status = status])
    /\ UNCHANGED <<config, store, clock, history, statusFlushed>>

\* the FastAPI handler up to its commit; payload is a valid OrderCreate, which
\* has no status field: a status in the body is dropped
FastapiUpdateOrder(p, jwt, oid, status) ==
    /\ impl = "fastapi"
    /\ Receive(p)
    /\ IF jwt = 0
          THEN Finish(p, R(401, "Missing authorization"))
       ELSE IF jwt \notin CustomerIds
          THEN Finish(p, R(401, "Invalid user"))
       ELSE IF ~orders[oid].exists \/ orders[oid].customer_id # jwt
          THEN Finish(p, R(403, "Forbidden"))
       ELSE Hold(p, "update_commit",
                 [NoLoc EXCEPT !.order_id = oid,
                               !.status = orders[oid].status,
                               !.customer_id = jwt])
    /\ UNCHANGED <<config, store, clock, history, statusFlushed>>

\* the status update_order's session has pending against the row it loaded
PendingUpdate(l) ==
    IF l.new_status # NONE /\ l.new_status # l.status THEN l.new_status ELSE NONE

\* the commit of update_order with a status column that takes NULL
UpdateOrderFlushNullable(p) ==
    LET l == loc[p]
    IN  IF ~orders[l.order_id].exists
        THEN \* the row was deleted meanwhile: the UPDATE or the reload fails;
             \* FastAPI with nothing to write answers as if it had updated
             \/ CommitFails(p)
             \/ /\ impl = "fastapi"
                /\ Finish(p, R(200, "Updated"))
                /\ UNCHANGED <<config, store, clock, nreq, history, statusFlushed>>
        ELSE /\ orders' = IF PendingUpdate(l) # NONE
                             THEN [orders EXCEPT ![l.order_id].status = PendingUpdate(l)]
                             ELSE orders
             /\ Finish(p, IF impl = "flask"
                             THEN RStatus(200, "Updated", orders'[l.order_id].status)
                             ELSE R(200, "Updated"))
             /\ UNCHANGED <<config, services, tracks, workers, nextOrderId,
                            clock, nreq, history, statusFlushed>>

\* the commit of an update_order that also assigns the body's service_id
UpdateOrderFlushReassigns(p) ==
    LET l == loc[p]
    IN  IF ~orders[l.order_id].exists
        THEN \* the row was deleted meanwhile: the UPDATE or the reload fails;
             \* FastAPI with nothing to write answers as if it had updated
             \/ CommitFails(p)
             \/ /\ impl = "fastapi"
                /\ Finish(p, R(200, "Updated"))
                /\ UNCHANGED <<config, store, clock, nreq, history, statusFlushed>>
        ELSE IF PendingUpdate(l) = NULL
        THEN \* status is nullable=False: the UPDATE raises IntegrityError
             CommitFails(p)
        ELSE /\ orders' = IF PendingUpdate(l) # NONE
                             THEN [orders EXCEPT ![l.order_id].status = PendingUpdate(l),
                                                 ![l.order_id].service_id = l.service_id]
                             ELSE [orders EXCEPT ![l.order_id].service_id = l.service_id]
             /\ Finish(p, IF impl = "flask"
                             THEN RStatus(200, "Updated", orders'[l.order_id].status)
                             ELSE R(200, "Updated"))
             /\ UNCHANGED <<config, services, tracks, workers, nextOrderId,
                            clock, nreq, history, statusFlushed>>

\* db.session.commit() of update_order, then the response: Flask reloads the
\* row for order.to_dict(), FastAPI answers without reading it
UpdateOrderFlush(p) ==
    LET l == loc[p]
    IN  IF ~orders[l.order_id].exists
        THEN \* the row was deleted meanwhile: the UPDATE or the reload fails;
             \* FastAPI with nothing to write answers as if it had updated
             \/ CommitFails(p)
             \/ /\ impl = "fastapi"
                /\ Finish(p, R(200, "Updated"))
                /\ UNCHANGED <<config, store, clock, nreq, history, statusFlushed>>
        ELSE IF PendingUpdate(l) = NULL
        THEN \* status is nullable=False: the UPDATE raises IntegrityError
             CommitFails(p)
        ELSE /\ orders' = IF PendingUpdate(l) # NONE
                             THEN [orders EXCEPT ![l.order_id].status = PendingUpdate(l)]
                             ELSE orders
             /\ Finish(p, IF impl = "flask"
                             THEN RStatus(200, "Updated", orders'[l.order_id].status)
                             ELSE R(200, "Updated"))
             /\ UNCHANGED <<config, services, tracks, workers, nextOrderId,
                            clock, nreq, history, statusFlushed>>

UpdateOrderCommit(p) ==
    /\ pc[p] = "update_commit"
    /\ \/ CommitFails(p)
       \/ UpdateOrderFlush(p)

\* Flask get_order; the FastAPI router has no route for it
GetOrder(p, jwt, oid) ==
    /\ impl = "flask"
    /\ Receive(p)
    /\ IF jwt = 0
          THEN Finish(p, R(401, "Missing Authorization Header"))
       ELSE IF ~orders[oid].exists
          THEN Finish(p, R(404, "Not Found"))
       ELSE IF orders[oid].customer_id # jwt
          THEN Finish(p, R(403, "Forbidden"))
       ELSE Finish(p, ROrder(200, "OK", oid))
    /\ UNCHANGED <<config, store, clock, history, statusFlushed>>

\* the rows filter_by(customer_id=customer_id) selects
OrdersOf(customer) ==
    {o \in OrderIds : orders[o].exists /\ orders[o].customer_id = customer}

FlaskListOrders(p, jwt) ==
    /\ impl = "flask"
    /\ Receive(p)
    /\ IF jwt = 0
          THEN Finish(p, R(401, "Missing Authorization Header"))
       ELSE Finish(p, RList(200, "OK", OrdersOf(jwt)))
    /\ UNCHANGED <<config, store, clock, history, statusFlushed>>

FastapiListOrders(p, jwt) ==
    /\ impl = "fastapi"
    /\ Receive(p)
    /\ IF jwt = 0
          THEN Finish(p, R(401, "Missing authorization"))
       ELSE IF jwt \notin CustomerIds
          THEN Finish(p, R(401, "Invalid user"))
       ELSE Finish(p, RList(200, "OK", OrdersOf(jwt)))
    /\ UNCHANGED <<config, store, clock, history, statusFlushed>>

----------------------------------------------------------------------------
(* Services: POST /services, PUT /services/<id> *)

NextServiceId ==
    LET used == {s \in ServiceIds : services[s].exists}
    IN  IF used = {} THEN 1 ELSE 1 + CHOOSE s \in used : \A t \in used : t <= s

NameTaken(name) == \E s \in ServiceIds : services[s].exists /\ services[s].name = name

\* the insert of a service row; the unique index on name refuses a duplicate
InsertService(p, name, price) ==
    IF NameTaken(name)
    THEN CommitFails(p)
    ELSE /\ services' = [services EXCEPT ![NextServiceId] =
                   [exists |-> TRUE, name |-> name, price |-> Numeric2(price)]]
         /\ Finish(p, R(201, "Created"))
         /\ UNCHANGED <<config, orders, tracks, workers, nextOrderId,
                        clock, history, statusFlushed>>

\* Flask create_service: any valid JWT passes
FlaskCreateService(p, jwt, name, price) ==
    /\ impl = "flask"
    /\ Receive(p)
    /\ IF jwt = 0
          THEN /\ Finish(p, R(401, "Missing Authorization Header"))
               /\ UNCHANGED <<config, store, clock, history, statusFlushed>>
       ELSE IF Falsy(name) \/ price = -1
          THEN /\ Finish(p, R(400, "Missing fields"))
               /\ UNCHANGED <<config, store, clock, history, statusFlushed>>
       ELSE \/ InsertService(p, name, price)
            \/ /\ Finish(p, R(500, "Internal Server Error"))
               /\ UNCHANGED <<config, store, clock, history, statusFlushed>>

\* FastAPI create_service: no credential is asked for; payload is a valid
\* ServiceCreate
FastapiCreateService(p, name, price) ==
    /\ impl = "fastapi"
    /\ price # -1
    /\ Receive(p)
    /\ IF NameTaken(name)
          THEN /\ Finish(p, R(400, "Service exists"))
               /\ UNCHANGED <<config, store, clock, history, statusFlushed>>
       ELSE \/ InsertService(p, name, price)
            \/ /\ Finish(p, R(500, "Internal Server Error"))
               /\ UNCHANGED <<config, store, clock, history, statusFlushed>>

\* Flask update_service: price = -1 stands for a body without "price"
UpdateService(p, jwt, sid, price) ==
    /\ impl = "flask"
    /\ Receive(p)
    /\ IF jwt = 0
          THEN /\ Finish(p, R(401, "Missing Authorization Header"))
               /\ UNCHANGED <<config, store, clock, history, statusFlushed>>
       ELSE IF ~services[sid].exists
          THEN /\ Finish(p, R(404, "Not Found"))
               /\ UNCHANGED <<config, store, clock, history, statusFlushed>>
       ELSE \/ /\ services' = IF price = -1 THEN services
                               ELSE [services EXCEPT ![sid].price = Numeric2(price)]
               /\ Finish(p, R(200, "Updated"))
               /\ UNCHANGED <<config, orders, tracks, workers,
                              nextOrderId, clock, history, statusFlushed>>
            \/ /\ Finish(p, R(500, "Internal Server Error"))
               /\ UNCHANGED <<config, store, clock, history, statusFlushed>>

\* Flask delete_service: the row is deleted whatever orders refer to it; a
\* database that enforces the foreign key of orders.service_id refuses the
\* DELETE of a service that orders refer to, and the commit raises
DeleteService(p, jwt, sid) ==
    /\ impl = "flask"
    /\ Receive(p)
    /\ IF jwt = 0
          THEN /\ Finish(p, R(401, "Missing Authorization Header"))
               /\ UNCHANGED <<config, store, clock, history, statusFlushed>>
       ELSE IF ~services[sid].exists
          THEN /\ Finish(p, R(404, "Not Found"))
               /\ UNCHANGED <<config, store, clock, history, statusFlushed>>
       ELSE \/ /\ services' = [services EXCEPT ![sid] = NoRow]
               /\ Finish(p, R(200, "Deleted"))
               /\ UNCHANGED <<config, orders, tracks, workers,
                              nextOrderId, clock, history, statusFlushed>>
            \/ /\ Finish(p, R(500, "Internal Server Error"))
               /\ UNCHANGED <<config, store, clock, history, statusFlushed>>

----------------------------------------------------------------------------

\* A request's fields are drawn when the handler first reads them: a
\* request refused before a field is read is the same step whatever the
\* field holds.

Idle(p) == pc[p] = "idle" /\ nreq < MaxRequests

Scan(p) ==
    /\ Idle(p)
    /\ \E bearer \in Bearers :
          IF bearer = NONE \/ WorkerByToken(bearer) = 0
          THEN \/ FlaskScan(p, bearer, "", "")
               \/ FastapiScan(p, bearer, "", "")
          ELSE \E number \in ScanNumbers, action \in ScanActions :
                  \/ FlaskScan(p, bearer, number, action)
                  \/ FastapiScan(p, bearer, number, action)

CreateOrder(p) ==
    /\ Idle(p)
    /\ \E jwt \in JwtIds, sid \in RequestServiceIds :
          IF jwt \notin CustomerIds \/ sid = 0 \/ ~services[sid].exists
          THEN \/ FlaskCreateOrder(p, jwt, sid, NONE)
               \/ FastapiCreateOrder(p, jwt, sid, NONE)
          ELSE \E number \in OrderNumbers :
                  \/ FlaskCreateOrder(p, jwt, sid, number)
                  \/ FastapiCreateOrder(p, jwt, sid, number)

DeleteOrder(p) ==
    /\ Idle(p)
    /\ \E jwt \in JwtIds, oid \in OrderIds :
          \/ FlaskDeleteOrder(p, jwt, oid)
          \/ FastapiDeleteOrder(p, jwt, oid)

UpdateOrder(p) ==
    /\ Idle(p)
    /\ \E jwt \in JwtIds, oid \in OrderIds :
          IF jwt = 0 \/ ~orders[oid].exists \/ orders[oid].customer_id # jwt
          THEN \/ FlaskUpdateOrder(p, jwt, oid, NONE)
               \/ FastapiUpdateOrder(p, jwt, oid, NONE)
          ELSE \E status \in RequestStatuses :
                  \/ FlaskUpdateOrder(p, jwt, oid, status)
                  \/ FastapiUpdateOrder(p, jwt, oid, status)

ReadOrder(p) ==
    /\ Idle(p)
    /\ \E jwt \in JwtIds, oid \in OrderIds : GetOrder(p, jwt, oid)

ListOrders(p) ==
    /\ Idle(p)
    /\ \E jwt \in JwtIds : FlaskListOrders(p, jwt) \/ FastapiListOrders(p, jwt)

CreateService(p) ==
    /\ Idle(p)
    /\ \E name \in RequestNames, price \in RequestPrices :
          \/ \E jwt \in JwtIds : FlaskCreateService(p, jwt, name, price)
          \/ (name # "" /\ FastapiCreateService(p, name, price))

EditService(p) ==
    /\ Idle(p)
    /\ \E jwt \in JwtIds, sid \in ServiceIds, price \in RequestPrices :
          UpdateService(p, jwt, sid, price)

RemoveService(p) ==
    /\ Idle(p)
    /\ \E jwt \in JwtIds, sid \in ServiceIds : DeleteService(p, jwt, sid)

Next ==
    \/ \E p \in Procs : Scan(p)
    \/ \E p \in Procs : ScanCommit(p)
    \/ \E p \in Procs : CreateOrder(p)
    \/ \E p \in Procs : CreateOrderCommit(p)
    \/ \E p \in Procs : CreateOrderLabel(p)
    \/ \E p \in Procs : CreateOrderLabelCommit(p)
    \/ \E p \in Procs : DeleteOrder(p)
    \/ \E p \in Procs : DeleteOrderCommit(p)
    \/ \E p \in Procs : UpdateOrder(p)
    \/ \E p \in Procs : UpdateOrderCommit(p)
    \/ \E p \in Procs : ReadOrder(p)
    \/ \E p \in Procs : ListOrders(p)
    \/ \E p \in Procs : CreateService(p)
    \/ \E p \in Procs : EditService(p)
    \/ \E p \in Procs : RemoveService(p)

Spec == Init /\ [][Next]_vars

\* requests served one at a time: a request is received only when no
\* handler is running
SeqNext ==
    /\ Next
    /\ nreq' # nreq => \A p \in Procs : pc[p] = "idle"

SeqSpec == Init /\ [][SeqNext]_vars

\* Scans racing on one order: the store holds an order that was created and
\* labelled earlier and has reached any status since; only scans arrive.
RaceInit ==
    /\ impl \in Impls
    /\ services = [s \in ServiceIds |->
                      IF s = 1 THEN [exists |-> TRUE, name |-> "wash", price |-> 100]
                      ELSE NoRow]
    /\ \E status \in Statuses :
          orders = [o \in OrderIds |->
                       IF o = 1
                       THEN [exists |-> TRUE, id |-> 1, order_number |-> "0a1b2c3d4e5f",
                             customer_id |-> 1, service_id |-> 1, total_cost |-> 100,
                             status |-> status,
                             qr_code_path |-> QrPath("0a1b2c3d4e5f"), created_at |-> 0]
                       ELSE NoRow]
    /\ tracks = <<>>
    /\ workers = [w \in WorkerIds |->
                     [exists |-> TRUE, token |-> IF w = 1 THEN "tok-w1" ELSE "tok-w2"]]
    /\ nextOrderId = 2
    /\ clock = 1
    /\ pc = [p \in Procs |-> "idle"]
    /\ loc = [p \in Procs |-> NoLoc]
    /\ last = NoResp
    /\ nreq = 0
    /\ history = <<[id |-> 1, order_number |-> "0a1b2c3d4e5f", price |-> 100]>>
    /\ statusFlushed = {}
    /\ customers = SeededCustomers
    /\ adminEnv = AdminConfigured
    /\ isAdmin = FALSE

RaceNext ==
    \/ \E p \in Procs : Scan(p)
    \/ \E p \in Procs : ScanCommit(p)

RaceSpec == RaceInit /\ [][RaceNext]_vars

----------------------------------------------------------------------------
(* Worker login: POST /workers/login *)

\* number of tokens issued so far: the token issued last is still stored
TokensIssued ==
    LET stored == {i \in 1 .. Len(IssuedTokens) :
                      \E w \in WorkerIds : workers[w].token = IssuedTokens[i]}
    IN  IF stored = {} THEN 0 ELSE CHOOSE i \in stored : \A j \in stored : j <= i

\* Worker.query.get(worker_id)
WorkerExists(wid) == wid \in WorkerIds /\ workers[wid].exists

\* a login that answers with a new token and leaves the old one stored
WorkerLoginKeepsToken(p, wid) ==
    /\ impl = "flask"
    /\ Receive(p)
    /\ TokensIssued < Len(IssuedTokens)
    /\ Finish(p, IF wid = 0 THEN R(400, "Missing worker_id")
                 ELSE IF ~WorkerExists(wid) THEN R(404, "Worker not found")
                 ELSE RToken(200, "OK", IssuedTokens[TokensIssued + 1]))
    /\ UNCHANGED <<config, store, clock, history, statusFlushed>>

\* Flask worker_login; the FastAPI router has no route for it
WorkerLogin(p, wid) ==
    /\ impl = "flask"
    /\ Receive(p)
    /\ TokensIssued < Len(IssuedTokens)
    /\ IF wid = 0
          THEN /\ Finish(p, R(400, "Missing worker_id"))
               /\ UNCHANGED <<config, store, clock, history, statusFlushed>>
       ELSE IF ~WorkerExists(wid)
          THEN /\ Finish(p, R(404, "Worker not found"))
               /\ UNCHANGED <<config, store, clock, history, statusFlushed>>
       ELSE \/ /\ workers' = [workers EXCEPT ![wid].token =
                                                IssuedTokens[TokensIssued + 1]]
               /\ Finish(p, RToken(200, "OK", IssuedTokens[TokensIssued + 1]))
               /\ UNCHANGED <<config, services, orders, tracks, nextOrderId,
                              clock, history, statusFlushed>>
            \/ /\ Finish(p, R(500, "Internal Server Error")) \* the commit raises
               /\ UNCHANGED <<config, store, clock, history, statusFlushed>>

LogIn(p) ==
    /\ Idle(p)
    /\ \E wid \in RequestWorkerIds : WorkerLogin(p, wid)

\* Scans and worker logins against a store that holds one order
LoginNext ==
    \/ \E p \in Procs : Scan(p)
    \/ \E p \in Procs : ScanCommit(p)
    \/ \E p \in Procs : LogIn(p)

LoginSpec == RaceInit /\ [][LoginNext]_vars

----------------------------------------------------------------------------
(* Accounts: /auth/register, /auth/login, PUT /customers, the admin session *)

\* email of a request body: NONE = field left out
RequestEmails == Emails \cup {NONE}

\* an environment that sets neither admin variable: os.getenv returns None
AdminUnset == [email |-> NONE, password |-> NONE]

\* email and password of an admin login body: NONE = field left out
AdminEmails == {NONE, "admin@fab.test", "ann@fab.test"}
AdminPasswords == {NONE, "admin-pw-88", "pw-one-88"}

\* what the account handlers never write
catalog == <<services, orders, tracks, workers, nextOrderId, clock, history,
             statusFlushed>>

\* Customer.query.filter_by(email=email).first(): the id, or 0
CustomerByEmail(email) ==
    LET found == {c \in CustomerRowIds : customers[c].exists /\ customers[c].email = email}
    IN  IF found = {} THEN 0 ELSE CHOOSE c \in found : \A d \in found : c <= d

\* the id the next customer row gets
NextCustomerId ==
    LET used == {c \in CustomerRowIds : customers[c].exists}
    IN  IF used = {} THEN 1 ELSE 1 + CHOOSE c \in used : \A d \in used : d <= c

\* an INSERT into customers without its unique index on email
InsertCustomerNoIndex(p, email, password, code) ==
    /\ customers' = [customers EXCEPT ![NextCustomerId] =
                         [exists |-> TRUE, email |-> email,
                          password_hash |-> HashPassword(password)]]
    /\ Finish(p, RAuth(code, "Created", NextCustomerId))
    /\ UNCHANGED <<impl, adminEnv, isAdmin, catalog, nreq>>

\* db.session.add(customer); db.session.commit(): the unique index on email
\* refuses a second row with the email, and the IntegrityError is not caught
InsertCustomer(p, email, password, code) ==
    IF CustomerByEmail(email) # 0
    THEN /\ Finish(p, R(500, "Internal Server Error"))
         /\ UNCHANGED <<config, catalog, nreq>>
    ELSE /\ customers' = [customers EXCEPT ![NextCustomerId] =
                              [exists |-> TRUE, email |-> email,
                               password_hash |-> HashPassword(password)]]
         /\ Finish(p, RAuth(code, "Created", NextCustomerId))
         /\ UNCHANGED <<impl, adminEnv, isAdmin, catalog, nreq>>

\* register of either backend up to its commit; Flask answers a body without
\* email 400 "Missing fields", FastAPI 422
Register(p, email, password) ==
    /\ Receive(p)
    /\ IF email = NONE
          THEN Finish(p, IF impl = "flask" THEN R(400, "Missing fields")
                         ELSE R(422, "Unprocessable Entity"))
       ELSE IF CustomerByEmail(email) # 0
          THEN Finish(p, R(400, "Email already registered"))
       ELSE Hold(p, "register_commit",
                 [NoLoc EXCEPT !.email = email, !.password = password])
    /\ UNCHANGED <<config, catalog>>

RegisterCommit(p) ==
    /\ pc[p] = "register_commit"
    /\ InsertCustomer(p, loc[p].email, loc[p].password, 201)

\* a login that does not verify the password
LoginAnyPassword(p, email, password) ==
    /\ Receive(p)
    /\ Finish(p, IF CustomerByEmail(email) = 0 THEN R(401, "Bad credentials")
                 ELSE RAuth(200, "OK", CustomerByEmail(email)))
    /\ UNCHANGED <<config, catalog>>

\* login of either backend
Login(p, email, password) ==
    /\ Receive(p)
    /\ Finish(p, IF CustomerByEmail(email) = 0
                    THEN R(401, "Bad credentials")
                 ELSE IF ~VerifyPassword(customers[CustomerByEmail(email)].password_hash,
                                         password)
                    THEN R(401, "Bad credentials")
                 ELSE RAuth(200, "OK", CustomerByEmail(email)))
    /\ UNCHANGED <<config, catalog>>

\* Flask update_profile with a body {"email": ...} up to its commit.  The
\* handler unpacks schema.load(...) into (validated, errors): that is the
\* result of marshmallow 2; marshmallow 3 returns one dict, and unpacking a
\* dict of one key raises, which ends the request with a 500.
UpdateProfile(p, jwt, email) ==
    /\ impl = "flask"
    /\ Receive(p)
    /\ IF jwt = 0
          THEN Finish(p, R(401, "Missing Authorization Header"))
       ELSE IF ~customers[jwt].exists
          THEN Finish(p, R(404, "Not Found"))
       ELSE \/ Finish(p, R(500, "Internal Server Error"))
            \/ IF CustomerByEmail(email) \notin {0, jwt}
                 THEN Finish(p, R(400, "Email already in use"))
                 ELSE Hold(p, "profile_commit",
                           [NoLoc EXCEPT !.customer_id = jwt, !.email = email])
    /\ UNCHANGED <<config, catalog>>

\* the commit of update_profile: the UPDATE of the email column
UpdateProfileCommit(p) ==
    /\ pc[p] = "profile_commit"
    /\ IF CustomerByEmail(loc[p].email) \notin {0, loc[p].customer_id}
          THEN \* the unique index refuses the UPDATE
               /\ Finish(p, R(500, "Internal Server Error"))
               /\ UNCHANGED <<config, catalog, nreq>>
          ELSE /\ customers' = [customers EXCEPT ![loc[p].customer_id].email = loc[p].email]
               /\ Finish(p, R(200, "OK"))
               /\ UNCHANGED <<impl, adminEnv, isAdmin, catalog, nreq>>

\* admin_required: the response that refuses the request, or NoResp
AdminRequired == IF ~isAdmin THEN R(401, "Admin login required") ELSE NoResp

\* Flask admin create_customer: no lookup before the insert
AdminCreateCustomer(p, email, password) ==
    /\ impl = "flask"
    /\ Receive(p)
    /\ IF AdminRequired # NoResp
          THEN /\ Finish(p, AdminRequired)
               /\ UNCHANGED <<config, catalog>>
          ELSE InsertCustomer(p, email, password, 201)

\* Flask admin login: both operands of each == may be None
AdminLogin(p, email, password) ==
    /\ impl = "flask"
    /\ Receive(p)
    /\ IF email = adminEnv.email /\ password = adminEnv.password
          THEN /\ isAdmin' = TRUE
               /\ Finish(p, R(200, "ok"))
          ELSE /\ isAdmin' = isAdmin
               /\ Finish(p, R(401, "Bad creds"))
    /\ UNCHANGED <<impl, customers, adminEnv, catalog>>

\* Flask admin logout: session.clear()
AdminLogout(p) ==
    /\ impl = "flask"
    /\ Receive(p)
    /\ IF AdminRequired # NoResp
          THEN /\ Finish(p, AdminRequired)
               /\ isAdmin' = isAdmin
          ELSE /\ isAdmin' = FALSE
               /\ Finish(p, R(200, "logged out"))
    /\ UNCHANGED <<impl, customers, adminEnv, catalog>>

\* Flask admin list_customers, an admin-only endpoint
AdminListCustomers(p) ==
    /\ impl = "flask"
    /\ Receive(p)
    /\ Finish(p, IF AdminRequired # NoResp THEN AdminRequired
                 ELSE RList(200, "OK", {c \in CustomerRowIds : customers[c].exists}))
    /\ UNCHANGED <<config, catalog>>

SignUp(p) ==
    /\ Idle(p)
    /\ \E email \in RequestEmails, password \in Passwords : Register(p, email, password)

SignIn(p) ==
    /\ Idle(p)
    /\ \E email \in RequestEmails, password \in Passwords : Login(p, email, password)

EditProfile(p) ==
    /\ Idle(p)
    /\ \E jwt \in {0} \cup CustomerRowIds, email \in Emails : UpdateProfile(p, jwt, email)

AddCustomer(p) ==
    /\ Idle(p)
    /\ \E email \in Emails, password \in Passwords : AdminCreateCustomer(p, email, password)

AdminSignIn(p) ==
    /\ Idle(p)
    /\ \E email \in AdminEmails, password \in AdminPasswords :
          AdminLogin(p, email, password)

\* a database whose only customer is ann; the environment may or may not
\* set the admin variables
AccountInit ==
    /\ impl \in Impls
    /\ services = [s \in ServiceIds |->
                      IF s = 1 THEN [exists |-> TRUE, name |-> "wash", price |-> 100]
                      ELSE NoRow]
    /\ orders = [o \in OrderIds |-> NoRow]
    /\ tracks = <<>>
    /\ workers = [w \in WorkerIds |->
                     [exists |-> TRUE, token |-> IF w = 1 THEN "tok-w1" ELSE "tok-w2"]]
    /\ nextOrderId = 1
    /\ clock = 0
    /\ pc = [p \in Procs |-> "idle"]
    /\ loc = [p \in Procs |-> NoLoc]
    /\ last = NoResp
    /\ nreq = 0
    /\ history = <<>>
    /\ statusFlushed = {}
    /\ customers = [c \in CustomerRowIds |-> IF c = 1 THEN SeededCustomers[1] ELSE NoRow]
    /\ adminEnv \in {AdminConfigured, AdminUnset}
    /\ isAdmin = FALSE

AccountNext ==
    \/ \E p \in Procs : SignUp(p)
    \/ \E p \in Procs : RegisterCommit(p)
    \/ \E p \in Procs : SignIn(p)
    \/ \E p \in Procs : EditProfile(p)
    \/ \E p \in Procs : UpdateProfileCommit(p)
    \/ \E p \in Procs : AddCustomer(p)
    \/ \E p \in Procs : AdminSignIn(p)
    \/ \E p \in Procs : AdminLogout(p)
    \/ \E p \in Procs : AdminListCustomers(p)

AccountSpec == AccountInit /\ [][AccountNext]_vars

----------------------------------------------------------------------------
(* Properties *)

\* the lifecycle actions of the specification
Recognized == {"picked_up", "processing", "completed", "delivered"}

\* this step is slot p's scan answering 200
ScanSucceeded(p) ==
    /\ pc[p] = "scan_commit"
    /\ pc'[p] = "idle"
    /\ last' = R(200, "Scan recorded")

\* this step appends exactly one track row, for the scan slot p holds
OneTrackAppended(p) ==
    /\ Len(tracks') = Len(tracks) + 1
    /\ SubSeq(tracks', 1, Len(tracks)) = tracks
    /\ tracks'[Len(tracks')].order_id = loc[p].order_id
    /\ tracks'[Len(tracks')].worker_id = loc[p].worker_id
    /\ tracks'[Len(tracks')].action = loc[p].action

\* no order row carries this order_number
NoOrderNumbered(number) ==
    \A o \in OrderIds : ~(orders[o].exists /\ orders[o].order_number = number)

\* no worker row carries this bearer token
NoWorkerWithToken(bearer) ==
    bearer = NONE \/ \A w \in WorkerIds : ~(workers[w].exists /\ workers[w].token = bearer)

\* this step is slot p receiving a scan request with these fields
ScanReceived(p, bearer, number, action) ==
    FlaskScan(p, bearer, number, action) \/ FastapiScan(p, bearer, number, action)

\* C1: every successful scan with an action among picked_up, processing,
\* completed, delivered leaves the order with that action as its status and
\* appends exactly one track row with the order's id, the worker's id, the
\* action and a creation time not before the order's.
C1_RecognizedScanSetsStatus ==
    [][\A p \in Procs :
        (ScanSucceeded(p) /\ loc[p].action \in Recognized) =>
            /\ orders'[loc[p].order_id].exists
            /\ orders'[loc[p].order_id].status = loc[p].action
            /\ OneTrackAppended(p)
            /\ tracks'[Len(tracks')].created_at >= orders'[loc[p].order_id].created_at]_vars

\* C2: every successful scan with an action outside the four lifecycle
\* actions appends one track row with that action and leaves every order's
\* status as it was.
C2_UnrecognizedScanKeepsStatus ==
    [][\A p \in Procs :
        (ScanSucceeded(p) /\ loc[p].action \notin Recognized) =>
            /\ OneTrackAppended(p)
            /\ orders' = orders]_vars

C2_Witness ==
    /\ last = R(200, "Scan recorded")
    /\ tracks # <<>>
    /\ tracks[Len(tracks)].action \notin Recognized
    /\ orders[tracks[Len(tracks)].order_id].exists
    /\ orders[tracks[Len(tracks)].order_id].status = "created"

\* C3 as stated: a scan by an authenticated worker whose order_number is that
\* of no order is answered 404 and adds no track row and changes no order.
C3_UnknownOrderIsNotFound ==
    [][\A p \in Procs, bearer \in Bearers, number \in ScanNumbers, action \in ScanActions :
        (/\ pc[p] = "idle"
         /\ ~NoWorkerWithToken(bearer)
         /\ NoOrderNumbered(number)
         /\ ScanReceived(p, bearer, number, action)) =>
            /\ last' = R(404, "Order not found")
            /\ pc'[p] = "idle"
            /\ tracks' = tracks
            /\ orders' = orders]_vars

\* C3 as amended: such a scan is answered 404 when the request carries a
\* non-empty order_number and action; the Flask handler answers 400 when
\* either is empty or left out; in both cases no track row is added and no
\* order changes.
C3_UnknownOrderIsNotFoundOrInvalid ==
    [][\A p \in Procs, bearer \in Bearers, number \in ScanNumbers, action \in ScanActions :
        (/\ pc[p] = "idle"
         /\ ~NoWorkerWithToken(bearer)
         /\ NoOrderNumbered(number)
         /\ ScanReceived(p, bearer, number, action)) =>
            /\ last' = IF impl = "flask" /\ (number = "" \/ action = "")
                        THEN R(400, "Missing fields")
                        ELSE R(404, "Order not found")
            /\ pc'[p] = "idle"
            /\ tracks' = tracks
            /\ orders' = orders]_vars

C3_Witness ==
    /\ last = R(404, "Order not found")
    /\ \E o \in OrderIds : orders[o].exists

\* C4: a scan request with no bearer token, or with one no worker row
\* carries, is answered 401 and adds no track row and changes no order,
\* whatever its order_number and action.
C4_BadTokenIsUnauthorized ==
    [][\A p \in Procs, bearer \in Bearers, number \in ScanNumbers, action \in ScanActions :
        (/\ pc[p] = "idle"
         /\ NoWorkerWithToken(bearer)
         /\ ScanReceived(p, bearer, number, action)) =>
            /\ last'.code = 401
            /\ pc'[p] = "idle"
            /\ tracks' = tracks
            /\ orders' = orders]_vars

C4_Witness ==
    /\ last \in {R(401, "Invalid token"), R(401, "Invalid worker token")}
    /\ \E o \in OrderIds : orders[o].exists

C6_TotalCostIsPriceAtCreation ==
    \A i \in 1 .. Len(history) :
        orders[history[i].id].exists =>
            orders[history[i].id].total_cost = history[i].price

C6_Witness ==
    \E o \in OrderIds :
        /\ orders[o].exists
        /\ services[orders[o].service_id].exists
        /\ services[orders[o].service_id].price # orders[o].total_cost

\* C7: no two orders ever created carry the same order_number.
C7_OrderNumbersUniqueForever ==
    \A i, j \in 1 .. Len(history) :
        i # j => history[i].order_number # history[j].order_number

\* this step ends slot p's create-order at its first commit
CreateCommitEnds(p) ==
    /\ pc[p] = "create_commit"
    /\ pc'[p] # "create_commit"

\* C8: a create-order whose generated number is that of an existing order
\* is answered with a Conflict error (409) and inserts no order row.
C8_CollisionIsConflict ==
    [][\A p \in Procs :
        (CreateCommitEnds(p) /\ ~NoOrderNumbered(loc[p].order_number)) =>
            /\ last'.code = 409
            /\ orders' = orders]_vars

\* this step is slot p receiving a create-order request
CreateOrderReceived(p, jwt, sid, number) ==
    FlaskCreateOrder(p, jwt, sid, number) \/ FastapiCreateOrder(p, jwt, sid, number)

\* C9: a create-order by an authenticated customer with the service_id of no
\* service is answered 400 "Invalid service" and leaves the orders as they
\* were, with nothing left to commit.
C9_UnknownServiceIsInvalidReference ==
    [][\A p \in Procs, jwt \in CustomerIds, sid \in RequestServiceIds \ {0},
         number \in OrderNumbers \cup {NONE} :
        (CreateOrderReceived(p, jwt, sid, number) /\ ~services[sid].exists) =>
            /\ last' = R(400, "Invalid service")
            /\ pc'[p] = "idle"
            /\ orders' = orders]_vars

C9_Witness ==
    /\ last = R(400, "Invalid service")
    /\ \A p \in Procs : pc[p] = "idle"

\* an order row as create-order leaves it for this customer
FreshOrder(row, customer) ==
    /\ row.exists
    /\ row.status = "created"
    /\ row.order_number \notin {"", NONE}
    /\ row.customer_id = customer

\* C10: the row a create-order inserts has status created, a non-empty
\* order_number and the authenticated customer as its owner, and still has
\* them when the request is answered 201.
C10_NewOrderIsCreatedAndOwned ==
    [][\A p \in Procs :
        /\ (pc[p] = "create_commit" /\ pc'[p] = "create_label") =>
              /\ ~orders[loc'[p].order_id].exists
              /\ FreshOrder(orders'[loc'[p].order_id], loc[p].customer_id)
        /\ (pc[p] = "label_commit" /\ pc'[p] = "idle" /\ last' = R(201, "Created")) =>
              FreshOrder(orders'[loc[p].order_id], loc[p].customer_id)]_vars

C10_Witness ==
    /\ last = R(201, "Created")
    /\ \E o \in OrderIds :
          /\ orders[o].exists
          /\ orders[o].status = "created"
          /\ orders[o].customer_id = 2
          /\ orders[o].qr_code_path = QrPath(orders[o].order_number)

\* order o is there before and after this step, with another status after
StatusChanged(o) ==
    /\ orders[o].exists
    /\ orders'[o].exists
    /\ orders'[o].status # orders[o].status

\* C11: update-order never changes an order's status: every step that
\* changes the status of an order is the commit of a successful scan of
\* that order.
C11_StatusChangesOnlyByScan ==
    [][\A o \in OrderIds :
        StatusChanged(o) => \E p \in Procs : ScanSucceeded(p) /\ loc[p].order_id = o]_vars

\* this step is slot p receiving an update-order request with these fields
UpdateOrderReceived(p, jwt, oid, status) ==
    FlaskUpdateOrder(p, jwt, oid, status) \/ FastapiUpdateOrder(p, jwt, oid, status)

\* this step is slot p's update-order answering 200 for a body with a status
UpdateWithStatusSucceeded(p) ==
    /\ pc[p] = "update_commit"
    /\ pc'[p] = "idle"
    /\ last'.code = 200
    /\ loc[p].new_status # NONE

\* the owner's update-order with one of the six statuses is taken to its
\* commit with that status, and its 200 leaves the order with it and reports it
OwnerUpdateSetsStatus ==
    /\ \A p \in Procs, jwt \in CustomerIds, oid \in OrderIds, status \in Statuses :
          (/\ orders[oid].exists
           /\ orders[oid].customer_id = jwt
           /\ UpdateOrderReceived(p, jwt, oid, status)) =>
              /\ pc'[p] = "update_commit"
              /\ loc'[p].order_id = oid
              /\ loc'[p].new_status = status
    /\ \A p \in Procs :
          UpdateWithStatusSucceeded(p) =>
              /\ orders'[loc[p].order_id].exists
              /\ orders'[loc[p].order_id].status = loc[p].new_status
              /\ last' = RStatus(200, "Updated", loc[p].new_status)

DeleteOrderReceived(p, jwt, oid) ==
    FlaskDeleteOrder(p, jwt, oid) \/ FastapiDeleteOrder(p, jwt, oid)

\* this step is slot p receiving a get, update or delete of order oid
ByIdReceived(p, jwt, oid, status) ==
    \/ GetOrder(p, jwt, oid)
    \/ UpdateOrderReceived(p, jwt, oid, status)
    \/ DeleteOrderReceived(p, jwt, oid)

\* this step is slot p receiving a list-orders request
ListOrdersReceived(p, jwt) ==
    FlaskListOrders(p, jwt) \/ FastapiListOrders(p, jwt)

\* C13: a get, update or delete of an order requested by a customer other
\* than its owner is answered Forbidden (403) and leaves every order as it
\* was, and the list a customer is answered holds only that customer's orders.
C13_OtherCustomerIsForbidden ==
    [][/\ \A p \in Procs, jwt \in CustomerIds, oid \in OrderIds, status \in RequestStatuses :
            (/\ orders[oid].exists
             /\ orders[oid].customer_id # jwt
             /\ ByIdReceived(p, jwt, oid, status)) =>
                /\ last' = R(403, "Forbidden")
                /\ pc'[p] = "idle"
                /\ orders' = orders
       /\ \A p \in Procs, jwt \in CustomerIds :
            ListOrdersReceived(p, jwt) =>
                /\ last'.code = 200
                /\ \A o \in OrderIds :
                      o \in last'.ids <=> (orders[o].exists /\ orders[o].customer_id = jwt)
                /\ orders' = orders]_vars

\* a Flask request for another customer's order was refused; the order is there
C13_Witness ==
    /\ impl = "flask"
    /\ last = R(403, "Forbidden")
    /\ \E o \in OrderIds : orders[o].exists /\ orders[o].qr_code_path # NONE

\* C14: a get, update or delete by an authenticated customer is answered
\* NotFound (404) when no order has the id, and Forbidden (403) when the
\* order is another customer's.
C14_MissingIsNotFoundForeignIsForbidden ==
    [][\A p \in Procs, jwt \in CustomerIds, oid \in OrderIds, status \in RequestStatuses :
        ByIdReceived(p, jwt, oid, status) =>
            /\ ~orders[oid].exists => last'.code = 404
            /\ (orders[oid].exists /\ orders[oid].customer_id # jwt) => last'.code = 403]_vars

\* C15: track rows are append-only: every step leaves each track row there
\* was in place and unchanged, so the tracks only ever grow.
C15_TracksAppendOnly ==
    [][/\ Len(tracks') >= Len(tracks)
       /\ SubSeq(tracks', 1, Len(tracks)) = tracks]_vars

\* a delete-order is about to commit against an order that has track rows
C15_Witness ==
    \E p \in Procs :
        /\ pc[p] = "delete_commit"
        /\ \E i \in 1 .. Len(tracks) : tracks[i].order_id = loc[p].order_id

\* C16: in every state each track row's order_id is that of an existing
\* order row and its worker_id that of an existing worker row.
C16_TracksReferToExistingRows ==
    \A i \in 1 .. Len(tracks) :
        /\ orders[tracks[i].order_id].exists
        /\ workers[tracks[i].worker_id].exists

\* this step ends slot p's create-order after its first commit with an error
LabelStepFailed(p) ==
    /\ pc[p] = "create_label"
    /\ pc'[p] = "idle"
    /\ last'.code # 201

\* C17: when create-order fails after its first commit (the label cannot be
\* generated), the order row that commit inserted stays as it was inserted:
\* there, with status created and no label reference.
C17_LabelFailureKeepsOrder ==
    [][\A p \in Procs :
        LabelStepFailed(p) =>
            /\ orders' = orders
            /\ orders'[loc[p].order_id].exists
            /\ orders'[loc[p].order_id].status = "created"
            /\ orders'[loc[p].order_id].qr_code_path = NONE]_vars

\* a create-order has failed at its label: its row is there without a label
C17_Witness ==
    /\ last = R(500, "Internal Server Error")
    /\ \A p \in Procs : pc[p] = "idle"
    /\ \E o \in OrderIds :
          /\ orders[o].exists
          /\ orders[o].status = "created"
          /\ orders[o].qr_code_path = NONE

\* C18: a create-order whose order row is committed always answers with
\* the order-creation success (201), also when the label cannot be generated.
C18_LabelFailureIsAWarning ==
    [][\A p \in Procs :
        (pc[p] = "create_label" /\ pc'[p] = "idle") => last'.code = 201]_vars

\* the status changes the lifecycle allows: one step forward, or to
\* cancelled from a status that is not terminal
LegalTransitions ==
    {<<"created", "picked_up">>, <<"picked_up", "processing">>,
     <<"processing", "completed">>, <<"completed", "delivered">>}
    \cup {<<st, "cancelled">> : st \in Statuses \ {"delivered", "cancelled"}}

\* C19: every change of an order's status is one the lifecycle allows; in
\* particular no step changes the status of a delivered or cancelled order.
C19_StatusFollowsLifecycle ==
    [][\A o \in OrderIds :
        StatusChanged(o) => <<orders[o].status, orders'[o].status>> \in LegalTransitions]_vars

\* C20: whenever a scan whose action the handler maps to a status commits
\* successfully, also while another scan of the same order is between its
\* read and its commit, its track row is appended and its action is the
\* order's status right after the commit (the scan committed last wins).
C20_LastCommitWins ==
    [][\A p \in Procs :
        (ScanSucceeded(p) /\ ScanStatus(loc[p].action) # NONE) =>
            /\ OneTrackAppended(p)
            /\ orders'[loc[p].order_id].status = loc[p].action]_vars

\* this step ends a request with an error response
RequestFailed ==
    /\ last'.code >= 400
    /\ \/ nreq' # nreq
       \/ \E p \in Procs : pc[p] # "idle" /\ pc'[p] = "idle"

\* C21: a request that ends with an error, other than a create-order whose
\* label cannot be generated, leaves the store as it was before the request:
\* the step that answers changes nothing, and a create-order that fails at
\* its second commit has not left the row of its first commit behind.
C21_ErrorsLeaveStoreUnchanged ==
    [][\A p \in Procs :
        (RequestFailed /\ pc[p] # "create_label") =>
            /\ store' = store
            /\ (pc[p] = "label_commit" /\ pc'[p] = "idle") =>
                   ~orders'[loc[p].order_id].exists]_vars

\* C22: no request of an ordinary customer or of an unauthenticated caller
\* creates, modifies or deletes a service or creates a worker.  The requests
\* of the specification carry a customer's JWT or none, never the
\* administrator's session, so no step may change either table's rows.
C22_OnlyAdminChangesServices ==
    [][/\ services' = services
       /\ \A w \in WorkerIds : workers'[w].exists = workers[w].exists]_vars

\* C26: an order is inserted only with a service and a customer that exist
\* when its insertion commits.
C26_NewOrderRefersToExistingRows ==
    [][\A p \in Procs :
        (pc[p] = "create_commit" /\ pc'[p] = "create_label") =>
            /\ services'[orders'[loc'[p].order_id].service_id].exists
            /\ customers'[orders'[loc'[p].order_id].customer_id].exists]_vars

C29_StatusIsOneOfSix ==
    \A o \in OrderIds : orders[o].exists => orders[o].status \in Statuses

\* an update-order whose body carries "status": null has reached its commit
C29_Witness ==
    \E p \in Procs :
        /\ pc[p] = "update_commit"
        /\ loc[p].new_status = NULL
        /\ orders[loc[p].order_id].exists

\* the number of rows of a tracks table that refer to order o
TrackCount(ts, o) == Cardinality({i \in 1 .. Len(ts) : ts[i].order_id = o})

\* the slots whose scan of order o is answered 200 by this step
SuccessfulScansOf(o) == {p \in Procs : ScanSucceeded(p) /\ loc[p].order_id = o}

C28_LoginReplacesToken ==
    [][\A p \in Procs, wid \in RequestWorkerIds \ {0} :
        WorkerLogin(p, wid) =>
            IF WorkerExists(wid)
            THEN last'.code = 200 =>
                    \A new, old \in Bearers :
                        (new = last'.token /\ old = workers[wid].token) =>
                            /\ WorkerByToken(new)' = wid
                            /\ RequireWorkerToken(new)' = NoResp
                            /\ RequireWorkerToken(old)' = R(401, "Invalid token")
            ELSE /\ last' = R(404, "Worker not found")
                 /\ workers' = workers]_vars

\* after a login of worker 1, a scan with the old token has been refused
C28_Witness ==
    /\ workers[1].token = "tok-n1"
    /\ WorkerByToken("tok-w1") = 0
    /\ last = R(401, "Invalid token")

\* some customer has this email and registered with this password
Registered(email, password) ==
    \E c \in CustomerRowIds :
        /\ customers[c].exists
        /\ customers[c].email = email
        /\ customers[c].password_hash.of = password

\* C23: a login is answered with tokens exactly when a customer with the
\* email exists whose password, as given when the row was created, is the
\* one supplied; any other login is answered Unauthorized; and the row a
\* registration inserts keeps the email and the password of its body.
C23_LoginIffRegistered ==
    [][/\ \A p \in Procs, email \in RequestEmails, password \in Passwords :
            Login(p, email, password) =>
                IF Registered(email, password)
                THEN /\ last'.code = 200
                     /\ customers[last'.customer].email = email
                ELSE last' = R(401, "Bad credentials")
       /\ \A p \in Procs :
            (pc[p] = "register_commit" /\ pc'[p] = "idle" /\ last'.code = 201) =>
                /\ customers'[last'.customer].email = loc[p].email
                /\ customers'[last'.customer].password_hash.of = loc[p].password]_vars

\* a customer who registered (no admin session was ever opened, so no row
\* was created by the admin) has logged in
C23_Witness ==
    /\ last = RAuth(200, "OK", 2)
    /\ customers[2].exists
    /\ ~isAdmin

\* no two customer rows carry the same email
UniqueEmails ==
    \A c, d \in CustomerRowIds :
        (c # d /\ customers[c].exists /\ customers[d].exists) =>
            customers[c].email # customers[d].email

\* C24: no two customers ever have the same email, whatever the
\* interleaving of registrations, profile updates and admin creations; a
\* registration of an email that a customer has is answered with an error
\* and adds no customer, at its lookup or, when the email was taken after
\* the lookup, at its commit.
C24_EmailsStayUnique ==
    /\ []UniqueEmails
    /\ [][\A p \in Procs :
            /\ \A email \in Emails, password \in Passwords :
                  (Register(p, email, password) /\ CustomerByEmail(email) # 0) =>
                      /\ last' = R(400, "Email already registered")
                      /\ customers' = customers
            /\ (pc[p] = "register_commit" /\ pc'[p] = "idle"
                  /\ CustomerByEmail(loc[p].email) # 0) =>
                      /\ last'.code >= 400
                      /\ customers' = customers]_vars

\* a registration that passed its lookup holds an email taken since
C24_Witness ==
    \E p \in Procs :
        /\ pc[p] = "register_commit"
        /\ CustomerByEmail(loc[p].email) # 0

\* C30: an admin login is granted only when the body supplies an email and
\* a password and both equal the configured ones, the session becomes an
\* admin session by no other step, and an admin-only endpoint answers 401
\* to a session that is not an admin session.
C30_AdminSessionNeedsCredentials ==
    [][/\ \A p \in Procs, email \in AdminEmails, password \in AdminPasswords :
            (AdminLogin(p, email, password) /\ last'.code = 200) =>
                /\ email # NONE
                /\ password # NONE
                /\ email = adminEnv.email
                /\ password = adminEnv.password
       /\ (isAdmin' /\ ~isAdmin) =>
             \E p \in Procs, email \in AdminEmails, password \in AdminPasswords :
                AdminLogin(p, email, password)
       /\ \A p \in Procs :
            (AdminListCustomers(p) /\ ~isAdmin) =>
                last' = R(401, "Admin login required")]_vars

====
